---- MODULE Spec2Model ----
(***************************************************************************)
(* Model of OpenAIClient (openai_client.py): request assembly, the call   *)
(* to the hosted API, response unwrapping and the running cost totals.    *)
(*                                                                         *)
(* Python values are tagged records ([kind |-> ...]); a Python str is a   *)
(* sequence of atoms (words of a text, characters of a base64 string).    *)
(* Money is counted in whole units of 2e-7 dollars, so that the totals    *)
(* can carry more precision than the six decimals the report prints.      *)
(***************************************************************************)
EXTENDS Integers, Sequences, FiniteSets, TLC

\* ------------------------------------------------------------------ bounds
MaxCalls == 2
NumCallers == 2

\* --------------------------------------------------------- Python values
None == [kind |-> "None"]
Str(s) == [kind |-> "str", str |-> s]
List(xs) == [kind |-> "list", items |-> xs]

\* bool(v): None, "", [] and 0 are falsy; every other object is truthy
Truthy(v) ==
    CASE v.kind = "None" -> FALSE
      [] v.kind = "str" -> v.str # <<>>
      [] v.kind = "list" -> v.items # <<>>
      [] v.kind = "int" -> v.int # 0
      [] OTHER -> TRUE

\* --------------------------------------------------------------- inputs
\* Texts are sequences of words; some mention the literal image_url
SystemTexts == {Str(<<"be", "brief">>), Str(<<"image_url">>)}
UserTexts == {Str(<<>>), Str(<<"hi">>), Str(<<"image_url">>)}

\* The file system the client reads: a path is missing or holds bytes
Unreadable == [kind |-> "OSError"]
FileBytes(b) == [kind |-> "bytes", bytes |-> b]
ReadFile(path) ==
    CASE path = <<"photo.jpg">> -> FileBytes(<<255, 216, 255, 224>>)
      [] path = <<"empty.jpg">> -> FileBytes(<<>>)
      [] OTHER -> Unreadable

ImagePaths == {None, Str(<<>>), Str(<<"missing.jpg">>), Str(<<"empty.jpg">>),
               Str(<<"photo.jpg">>)}

Schema == [kind |-> "schema"]
PyInt(n) == [kind |-> "int", int |-> n]
DefaultMaxTokens == 300
\* <<response_format, max_completion_tokens>> as callers pass them
CallOptions == {None, Schema} \X {None, PyInt(DefaultMaxTokens)}

\* ------------------------------------------------------------ _encode_image
B64Alphabet ==
    << "A","B","C","D","E","F","G","H","I","J","K","L","M","N","O","P",
       "Q","R","S","T","U","V","W","X","Y","Z","a","b","c","d","e","f",
       "g","h","i","j","k","l","m","n","o","p","q","r","s","t","u","v",
       "w","x","y","z","0","1","2","3","4","5","6","7","8","9","+","/" >>

B64Char(n) == B64Alphabet[n + 1]

\* base64.b64encode(...).decode('utf-8'): 3 bytes -> 4 characters, "=" padding
RECURSIVE B64Encode(_)
B64Encode(b) ==
    IF Len(b) = 0 THEN <<>>
    ELSE IF Len(b) = 1 THEN
        LET n == b[1] * 65536
        IN << B64Char(n \div 262144), B64Char((n \div 4096) % 64), "=", "=" >>
    ELSE IF Len(b) = 2 THEN
        LET n == b[1] * 65536 + b[2] * 256
        IN << B64Char(n \div 262144), B64Char((n \div 4096) % 64),
              B64Char((n \div 64) % 64), "=" >>
    ELSE
        LET n == b[1] * 65536 + b[2] * 256 + b[3]
        IN << B64Char(n \div 262144), B64Char((n \div 4096) % 64),
              B64Char((n \div 64) % 64), B64Char(n % 64) >>
           \o B64Encode(SubSeq(b, 4, Len(b)))

\* open() failing is caught and turned into None
EncodeImage(image_path) ==
    LET file == ReadFile(image_path.str)
    IN IF file.kind = "bytes" THEN Str(B64Encode(file.bytes)) ELSE None

\* -------------------------------------------------------- _prepare_messages
Message(role, content) == [role |-> role, content |-> content]
TextPart(text) == [kind |-> "dict", type |-> "text", text |-> text]
ImagePart(b64) ==
    [kind |-> "dict", type |-> "image_url",
     image_url |-> [url |-> Str(<<"data:image/jpeg;base64,">> \o b64.str)]]

UserContent(user_message, image_path) ==
    IF Truthy(image_path)
    THEN LET base64_image == EncodeImage(image_path)
         IN IF Truthy(base64_image)
            THEN List(<<TextPart(user_message), ImagePart(base64_image)>>)
            ELSE user_message
    ELSE user_message

PrepareMessages(system_message, user_message, image_path) ==
    << Message("system", system_message),
       Message("user", UserContent(user_message, image_path)) >>

\* ------------------------------------------------------- _build_api_payload
BuildApiPayload(msgs, response_format, max_completion_tokens) ==
    [model |-> "gpt-4o-2024-08-06",
     messages |-> msgs,
     response_format |-> IF Truthy(response_format) THEN response_format ELSE None,
     max_completion_tokens |->
        IF Truthy(max_completion_tokens) THEN max_completion_tokens ELSE None]

\* ------------------------------------------------- responses of the hosted API
Payload == [kind |-> "parsed"]
Choice(content, parsed, refusal) ==
    [kind |-> "choice",
     message |-> [content |-> content, parsed |-> parsed, refusal |-> refusal]]
Response(choices) == [kind |-> "response", choices |-> List(choices)]

CompletionTexts == {None, Str(<<"ok">>)}
FirstChoices ==
    {Choice(c, p, r) : c \in CompletionTexts, p \in {None, Payload},
                       r \in {None, Str(<<"sorry">>)}}
\* Choices after the first: never looked at by the client
LaterChoice == Choice(Str(<<"ok", "ok">>), Payload, Str(<<"sorry">>))
Responses ==
    {Response(<<>>)} \cup {Response(<<c>>) : c \in FirstChoices}
    \cup {Response(<<Choice(None, None, None), LaterChoice>>)}

\* What openai.beta.chat.completions.parse can do: raise, or return a response
Raised == [kind |-> "Exception"]
ApiOutcomes == {Raised} \cup Responses

\* `response and response.choices`
HasChoices(response) == Truthy(response) /\ Truthy(response.choices)
FirstMessage(response) == response.choices.items[1].message

\* ---------------------------------------------------------- _handle_response
HandleResponseRefusalFirst(response) ==
    IF HasChoices(response)
    THEN IF Truthy(FirstMessage(response).refusal) THEN FirstMessage(response).refusal
         ELSE IF Truthy(FirstMessage(response).parsed) THEN FirstMessage(response).parsed
         ELSE response
    ELSE response

HandleResponse(response) ==
    IF HasChoices(response)
    THEN IF Truthy(FirstMessage(response).parsed) THEN FirstMessage(response).parsed
         ELSE IF Truthy(FirstMessage(response).refusal) THEN FirstMessage(response).refusal
         ELSE response
    ELSE response

\* --------------------------------------------------------------- CostCalculator
\* CostCalculator is imported by openai_client.py from cost_calculator; its
\* rates and estimates follow section 4.2 of the specification (one token
\* per word, a fixed surcharge for an image, nothing for an absent text).
PromptRate == 1
CompletionRate == 3
ImageSurcharge == 2

CalculatePromptCost(full_prompt, image) ==
    PromptRate * Len(full_prompt.str) + (IF image THEN ImageSurcharge ELSE 0)

CalculateCompletionCost(completion_text) ==
    IF Truthy(completion_text) THEN CompletionRate * Len(completion_text.str) ELSE 0

\* ----------------------------------------------------------- _calculate_cost
\* "".join(...) raises TypeError as soon as one item is not a str
JoinRaises(msgs) == \E i \in 1..Len(msgs) : msgs[i].content.kind # "str"

RECURSIVE Concat(_)
Concat(strs) ==
    IF strs = <<>> THEN <<>> ELSE Head(strs).str \o Concat(Tail(strs))

FullPrompt(msgs) == Str(Concat([i \in 1..Len(msgs) |-> msgs[i].content]))

\* Python's `needle in container`: substring test on a str (here: one of the
\* words of the text), element equality on a list
Contains(needle, container) ==
    CASE container.kind = "str" ->
            \E i \in 1..Len(container.str) : container.str[i] = needle
      [] container.kind = "list" ->
            \E i \in 1..Len(container.items) :
                /\ container.items[i].kind = "str"
                /\ container.items[i].str = <<needle>>
      [] OTHER -> FALSE

HasImage(msgs) == \E i \in 1..Len(msgs) : Contains("image_url", msgs[i].content)

\* `total += cost`, once the total has been loaded
AssignedTotal(loaded, cost) == cost
AddedTotal(loaded, cost) == loaded + cost

\* ---------------------------------------------------------- print_total_costs
UnitsPerMicro == 5
\* f"{x:.6f}": the nearest whole number of micro-dollars
Format6(x) == (x + (UnitsPerMicro \div 2)) \div UnitsPerMicro

PromptOnlyTotal(prompt, completion) == prompt
TotalCost(prompt, completion) == prompt + completion

Report(prompt, completion) ==
    [kind |-> "report",
     prompt |-> Format6(prompt),
     completion |-> Format6(completion),
     total |-> Format6(TotalCost(prompt, completion))]

\* ------------------------------------------------------------------- state
VARIABLES
    total_prompt_cost,      \* self.total_prompt_cost
    total_completion_cost,  \* self.total_completion_cost
    pc,                     \* per caller: where its chat call stands
    args,                   \* per caller: chat's system_message, user_message, image_path
    messages,               \* per caller: chat's local `messages`
    api_payload,            \* per caller: chat's local `api_payload`
    response,               \* per caller: chat's local `response`
    response_result,        \* per caller: chat's local `response_result`
    has_image,              \* per caller: _calculate_cost's local `has_image`
    cost,                   \* per caller: the cost about to be added
    loaded,                 \* per caller: the total read by `+=`, not yet stored
    printed,                \* the report print_total_costs wrote, if no chat step came after it
    calls,                  \* history: chat calls started so far
    recorded,               \* history, per caller: stores to the prompt total in this call
    before,                 \* history, per caller: both totals when this call started
    billed                  \* history: sum of all costs handed to `+=`

vars == << total_prompt_cost, total_completion_cost, pc, args, messages,
           api_payload, response, response_result, has_image, cost, loaded,
           printed, calls, recorded, before, billed >>

locals == << args, messages, api_payload, response, response_result,
             has_image, cost, loaded >>
totals == << total_prompt_cost, total_completion_cost >>

Callers == 1..NumCallers
Resting == {"idle", "returned", "raised"}
NoReport == [kind |-> "None"]

\* __init__: both totals start at 0.0; no caller is inside chat
Init ==
    /\ total_prompt_cost = 0
    /\ total_completion_cost = 0
    /\ pc = [t \in Callers |-> "idle"]
    /\ args = [t \in Callers |->
            [system_message |-> Str(<<>>), user_message |-> Str(<<>>), image_path |-> None]]
    /\ messages = [t \in Callers |-> <<>>]
    /\ api_payload = [t \in Callers |-> None]
    /\ response = [t \in Callers |-> None]
    /\ response_result = [t \in Callers |-> None]
    /\ has_image = [t \in Callers |-> FALSE]
    /\ cost = [t \in Callers |-> 0]
    /\ loaded = [t \in Callers |-> 0]
    /\ printed = NoReport
    /\ calls = 0
    /\ recorded = [t \in Callers |-> 0]
    /\ before = [t \in Callers |-> [prompt |-> 0, completion |-> 0]]
    /\ billed = [prompt |-> 0, completion |-> 0]

\* chat, steps 1 and 2: _prepare_messages (reads the image file) and
\* _build_api_payload
Chat(t, system_message, user_message, path, response_format, max_completion_tokens) ==
    /\ pc[t] \in Resting
    /\ calls < MaxCalls
    /\ calls' = calls + 1
    /\ LET msgs == PrepareMessages(system_message, user_message, path)
       IN /\ messages' = [messages EXCEPT ![t] = msgs]
          /\ api_payload' = [api_payload EXCEPT ![t] =
                BuildApiPayload(msgs, response_format, max_completion_tokens)]
    /\ args' = [args EXCEPT ![t] =
            [system_message |-> system_message, user_message |-> user_message,
             image_path |-> path]]
    /\ response' = [response EXCEPT ![t] = None]
    /\ response_result' = [response_result EXCEPT ![t] = None]
    /\ has_image' = [has_image EXCEPT ![t] = FALSE]
    /\ cost' = [cost EXCEPT ![t] = 0]
    /\ loaded' = [loaded EXCEPT ![t] = 0]
    /\ recorded' = [recorded EXCEPT ![t] = 0]
    /\ before' = [before EXCEPT ![t] =
            [prompt |-> total_prompt_cost, completion |-> total_completion_cost]]
    /\ printed' = NoReport
    /\ pc' = [pc EXCEPT ![t] = "call_api"]
    /\ UNCHANGED << totals, billed >>

\* chat, step 3: _make_api_call; an exception of the API becomes None
MakeApiCall(t, outcome) ==
    /\ pc[t] = "call_api"
    /\ response' = [response EXCEPT ![t] = IF outcome.kind = "Exception" THEN None ELSE outcome]
    /\ pc' = [pc EXCEPT ![t] = "handle"]
    /\ UNCHANGED << totals, args, messages, api_payload, response_result,
                    has_image, cost, loaded, printed, calls, recorded, before,
                    billed >>

\* chat, step 4: _handle_response
HandleResponseStep(t) ==
    /\ pc[t] = "handle"
    /\ response_result' = [response_result EXCEPT ![t] = HandleResponse(response[t])]
    /\ pc' = [pc EXCEPT ![t] = "cost"]
    /\ UNCHANGED << totals, args, messages, api_payload, response,
                    has_image, cost, loaded, printed, calls, recorded, before,
                    billed >>

\* chat, step 5, _calculate_cost lines 72-75 up to the read of the total:
\* the join raises on a list content and the exception leaves chat
PromptCost(t) ==
    /\ pc[t] = "cost"
    /\ IF JoinRaises(messages[t])
       THEN /\ pc' = [pc EXCEPT ![t] = "raised"]
            /\ UNCHANGED << has_image, cost, loaded, billed >>
       ELSE LET image == HasImage(messages[t])
                prompt_cost == CalculatePromptCost(FullPrompt(messages[t]), image)
            IN /\ has_image' = [has_image EXCEPT ![t] = image]
               /\ cost' = [cost EXCEPT ![t] = prompt_cost]
               /\ loaded' = [loaded EXCEPT ![t] = total_prompt_cost]
               /\ billed' = [billed EXCEPT !.prompt = @ + prompt_cost]
               /\ pc' = [pc EXCEPT ![t] = "store_prompt"]
    /\ UNCHANGED << totals, args, messages, api_payload, response,
                    response_result, printed, calls, recorded, before >>

\* line 75, the store of `self.total_prompt_cost += prompt_cost`
StorePrompt(t) ==
    /\ pc[t] = "store_prompt"
    /\ total_prompt_cost' = AddedTotal(loaded[t], cost[t])
    /\ recorded' = [recorded EXCEPT ![t] = @ + 1]
    /\ printed' = NoReport
    /\ pc' = [pc EXCEPT ![t] =
            IF HasChoices(response[t]) THEN "completion" ELSE "return"]
    /\ UNCHANGED << total_completion_cost, args, messages, api_payload,
                    response, response_result, has_image, cost, loaded,
                    calls, before, billed >>

\* lines 78-81 up to the read of the total
CompletionCost(t) ==
    /\ pc[t] = "completion"
    /\ LET completion_text == FirstMessage(response[t]).content
           completion_cost == CalculateCompletionCost(completion_text)
       IN /\ cost' = [cost EXCEPT ![t] = completion_cost]
          /\ billed' = [billed EXCEPT !.completion = @ + completion_cost]
    /\ loaded' = [loaded EXCEPT ![t] = total_completion_cost]
    /\ pc' = [pc EXCEPT ![t] = "store_completion"]
    /\ UNCHANGED << totals, args, messages, api_payload, response,
                    response_result, has_image, printed, calls, recorded,
                    before >>

\* line 81, the store of `self.total_completion_cost += completion_cost`
StoreCompletion(t) ==
    /\ pc[t] = "store_completion"
    /\ total_completion_cost' = AddedTotal(loaded[t], cost[t])
    /\ printed' = NoReport
    /\ pc' = [pc EXCEPT ![t] = "return"]
    /\ UNCHANGED << total_prompt_cost, args, messages, api_payload,
                    response, response_result, has_image, cost, loaded,
                    calls, recorded, before, billed >>

\* line 124, `return response_result`
Return(t) ==
    /\ pc[t] = "return"
    /\ pc' = [pc EXCEPT ![t] = "returned"]
    /\ UNCHANGED << totals, locals, printed, calls, recorded, before, billed >>

\* print_total_costs, called by a caller that is not inside chat
PrintTotalCosts(t) ==
    /\ pc[t] \in Resting
    /\ printed' = Report(total_prompt_cost, total_completion_cost)
    /\ UNCHANGED << totals, pc, locals, calls, recorded, before, billed >>

\* ---------------------------------------------------------- specifications
\* The reference behaviour: one caller, one call at a time
Next ==
    \E t \in {1} :
        \/ \E system_message \in SystemTexts, user_message \in UserTexts,
              path \in ImagePaths, options \in CallOptions :
                Chat(t, system_message, user_message, path, options[1], options[2])
        \/ \E outcome \in ApiOutcomes : MakeApiCall(t, outcome)
        \/ HandleResponseStep(t)
        \/ PromptCost(t)
        \/ StorePrompt(t)
        \/ CompletionCost(t)
        \/ StoreCompletion(t)
        \/ Return(t)
        \/ PrintTotalCosts(t)

Spec == Init /\ [][Next]_vars

\* Several callers share the client; their steps interleave between the
\* read and the store of each `+=`
SharedTexts == {Str(<<"hi">>)}
SharedOutcomes == {Raised, Response(<<Choice(Str(<<"ok">>), None, None)>>)}

NextShared ==
    \E t \in Callers :
        \/ \E text \in SharedTexts : Chat(t, text, text, None, None, PyInt(DefaultMaxTokens))
        \/ \E outcome \in SharedOutcomes : MakeApiCall(t, outcome)
        \/ HandleResponseStep(t)
        \/ PromptCost(t)
        \/ StorePrompt(t)
        \/ CompletionCost(t)
        \/ StoreCompletion(t)
        \/ Return(t)
        \/ PrintTotalCosts(t)

SpecShared == Init /\ [][NextShared]_vars

\* ------------------------------------------------------------------ claims
Ended(t) == pc[t] \in {"returned", "raised"}
Charged(t) == pc[t] \in {"store_prompt", "completion", "store_completion", "return", "returned"}
NoChoices(r) == r = None \/ r.choices.items = <<>>
Refused(r) == ~NoChoices(r) /\ r.choices.items[1].message.refusal # None
IsImagePart(part) == part.kind = "dict" /\ part.type = "image_url"
HasImagePart(msgs) ==
    \E i \in 1..Len(msgs) :
        /\ msgs[i].content.kind = "list"
        /\ \E j \in 1..Len(msgs[i].content.items) : IsImagePart(msgs[i].content.items[j])
UnreadableImage(t) ==
    /\ args[t].image_path # None
    /\ args[t].image_path.str # <<>>
    /\ ReadFile(args[t].image_path.str) = Unreadable

\* C1: every chat call records its cost exactly once, after the response is
\* unwrapped and before chat returns, whatever the image input, the API
\* outcome and the unwrap outcome.
C1_CostRecordedOncePerCall ==
    \A t \in Callers :
        /\ pc[t] \in {"call_api", "handle", "cost", "store_prompt"} => recorded[t] = 0
        /\ Ended(t) => pc[t] = "returned" /\ recorded[t] = 1

\* C2: no chat call ends by raising an exception to its caller.
C2_ChatNeverRaises == \A t \in Callers : pc[t] # "raised"

\* C3: when the API raised or the response has no choices, chat returns the
\* raw response, the prompt total grows by the prompt cost of the messages
\* and the completion total stays as it was.
C3_FailedCallChargesPromptOnly ==
    \A t \in Callers :
        (Ended(t) /\ NoChoices(response[t])) =>
            /\ pc[t] = "returned"
            /\ response_result[t] = response[t]
            /\ total_prompt_cost = before[t].prompt + cost[t]
            /\ total_completion_cost = before[t].completion

\* C4: the prompt-cost estimate is given hasImage = TRUE exactly when some
\* message content holds an image part; a call whose user message holds one
\* reaches the estimate, and plain text never counts as an image.
C4_HasImageIffImagePart ==
    \A t \in Callers :
        /\ Charged(t) => (has_image[t] <=> HasImagePart(messages[t]))
        /\ (Ended(t) /\ HasImagePart(messages[t])) => (pc[t] = "returned" /\ has_image[t])

\* C5: whenever the first choice sets a refusal, chat returns that refusal
\* and the cost of the call is still recorded from the raw response.
C5_RefusalReturnedAndCharged ==
    \A t \in Callers :
        (Ended(t) /\ Refused(response[t])) =>
            /\ pc[t] = "returned"
            /\ response_result[t] = response[t].choices.items[1].message.refusal
            /\ recorded[t] = 1
            /\ total_prompt_cost > before[t].prompt

\* C6: a call whose image file cannot be read sends one system message and
\* one user message holding the plain user text, goes on to the API, is
\* charged without the image surcharge, and returns normally.
C6_UnreadableImageDegradesToText ==
    \A t \in Callers :
        (UnreadableImage(t) /\ pc[t] # "idle") =>
            /\ Len(messages[t]) = 2
            /\ messages[t][1] = [role |-> "system", content |-> args[t].system_message]
            /\ messages[t][2] = [role |-> "user", content |-> args[t].user_message]
            /\ api_payload[t].messages = messages[t]
            /\ Charged(t) => ~has_image[t]
            /\ Ended(t) => pc[t] = "returned"

\* C7: both totals are zero at construction, never negative, never decrease
\* in any step, and after a call are at least what they were before it.
C7_TotalsMonotone ==
    /\ total_prompt_cost = 0 /\ total_completion_cost = 0
    /\ [](total_prompt_cost >= 0 /\ total_completion_cost >= 0)
    /\ [][total_prompt_cost' >= total_prompt_cost
          /\ total_completion_cost' >= total_completion_cost]_vars
    /\ [](\A t \in Callers :
            Ended(t) => /\ total_prompt_cost >= before[t].prompt
                        /\ total_completion_cost >= before[t].completion)

C7_Witness ==
    \E t \in Callers :
        /\ pc[t] = "returned"
        /\ calls >= 2
        /\ before[t].prompt > 0
        /\ total_prompt_cost > before[t].prompt
        /\ total_completion_cost > before[t].completion

\* C8: with several callers sharing the client no update of a total is
\* lost: once all calls are over, each total is the sum of the costs added.
C8_NoLostUpdate ==
    (\A t \in Callers : pc[t] \in Resting) =>
        /\ total_prompt_cost = billed.prompt
        /\ total_completion_cost = billed.completion

Within(shown, exact) ==
    /\ shown * UnitsPerMicro - exact <= UnitsPerMicro \div 2
    /\ exact - shown * UnitsPerMicro <= UnitsPerMicro \div 2

C10_ResultByCases ==
    /\ [](\A t \in Callers :
            pc[t] = "returned" =>
                LET r == response[t]
                    out == response_result[t]
                    first == r.choices.items[1].message
                IN /\ NoChoices(r) => out = r
                   /\ (~NoChoices(r) /\ first.parsed # None) => out = first.parsed
                   /\ (~NoChoices(r) /\ first.parsed = None /\ first.refusal # None)
                        => out = first.refusal
                   /\ (~NoChoices(r) /\ first.parsed = None /\ first.refusal = None)
                        => out = r)
    /\ [][\A t \in Callers :
            (pc[t] = "handle" /\ pc'[t] = "cost") =>
                (response'[t] = response[t] /\ UNCHANGED totals)]_vars

C10_Witness ==
    \E t \in Callers :
        /\ pc[t] = "returned"
        /\ Refused(response[t])
        /\ response[t].choices.items[1].message.parsed = Payload
        /\ response_result[t] = Payload

====
